---- MODULE Spec2Model ----
(***************************************************************************)
(* Model of the batch readers / fetchers of src/scripts:                   *)
(*   AsyncFileReader, AsyncUrlFetcher            (cooperative, asyncio)    *)
(*   ThreadedFileReader, ThreadedUrlFetcher      (ThreadPoolExecutor)      *)
(*   HybridAsyncThreadedReader / ...Fetcher      (asyncio + executor)      *)
(*   MultiprocessFileReader / ...UrlFetcher      (multiprocessing.Pool)    *)
(* One instance is constructed (Init), one batch operation is run on it.   *)
(* Every work item i has a position pc[i]; the environment (file system,   *)
(* network) chooses the outcome of every I/O step.                         *)
(***************************************************************************)
EXTENDS Integers, Sequences, FiniteSets, TLC

VARIABLES
    variant,              \* which class was constructed
    max_async,            \* max_concurrent_files / max_concurrent_requests / max_async_workers
    max_workers,          \* max_workers / max_thread_workers / max_processes
    max_concurrent_files, \* ThreadedFileReader's second knob
    sem,                  \* value of self.semaphore (free slots)
    lock,                 \* holder of self.lock (threading.Lock): 0 = free, else item index
    loaded,               \* <<i, n>>: the unit of item i has read the counter as n
                          \* and has not yet written it back
    total,                \* self.total_files / self.total_requests
    processed,            \* self.processed_files / self.processed_requests
    items,                \* the work items of the batch, in submission order
    pc,                   \* pc[i]: position of the unit of work of item i
    res,                  \* res[i]: what the unit produced (a result, or NoResult)
    fate,                 \* fate[i]: what the I/O of item i did ("pending" until it has)
    comp,                 \* item indices in the order their unit of work ended
    early,                \* as_completed: futures already finished when collection began
    yielded,              \* as_completed: futures it has yielded
    finq,                 \* as_completed: waiter.finished_futures, in completion order
    log,                  \* self.results_stack
    phase,                \* position of the batch operation itself
    session_open,         \* the aiohttp.ClientSession of the batch is open
    said,                 \* the last status line the batch operation printed
    timed,                \* the items whose request ran into its timeout
    ret                   \* what the caller's last query returned (NoCall: it has
                          \* made none since it last called the batch operation)

vars == <<variant, max_async, max_workers, max_concurrent_files, sem, lock, loaded, total,
          processed, items, pc, res, fate, comp, early, yielded, finq, log, phase,
          session_open, said, timed, ret>>

(***************************************************************************)
(* Bounds of the model.                                                    *)
(***************************************************************************)
MaxItems == 2
MaxCap == 2
MaxCount == 3
MaxCalls == 2
MaxExts == 2

(***************************************************************************)
(* Program constants.                                                      *)
(***************************************************************************)
TruncateLength == 1000
MarkerLength == 3
HttpErrorFloor == 400
SizeThreshold == 10000

None == "None"
NoResult == [none |-> TRUE]

\* no summary, and the value of ret before any query
NoSummary ==
    [kind |-> "none", total |-> 0, successful |-> 0, failed |-> 0, total_size |-> 0,
     status_codes |-> {}]
NoCall ==
    [op |-> "none", n |-> 0, calls |-> 0, len |-> 0, rows |-> <<>>, sum |-> NoSummary]

Variants == {"AsyncFile", "AsyncUrl", "ThreadFile", "ThreadUrl",
             "HybridFile", "HybridUrl", "ProcFile", "ProcUrl"}

IsFile(v) == v \in {"AsyncFile", "ThreadFile", "HybridFile", "ProcFile"}
IsUrl(v) == ~IsFile(v)
IsCoop(v) == v \in {"AsyncFile", "AsyncUrl"}
IsThread(v) == v \in {"ThreadFile", "ThreadUrl"}
IsHybrid(v) == v \in {"HybridFile", "HybridUrl"}
IsProc(v) == v \in {"ProcFile", "ProcUrl"}

(***************************************************************************)
(* The environment: identifiers, the size stat() reports for a file, the   *)
(* lengths a payload can have, the status codes a server can answer.       *)
(***************************************************************************)
Ids == {"a", "b"}
StatSize(id) == IF id = "a" THEN SizeThreshold - 1 ELSE SizeThreshold
ContentLens == {TruncateLength, TruncateLength + 1}
StatusCodes == {200, 404}

RECURSIVE SeqsUpTo(_, _)
SeqsUpTo(S, n) ==
    IF n = 0 THEN {<<>>}
    ELSE LET shorter == SeqsUpTo(S, n - 1)
         IN  shorter \cup {Append(s, x) : s \in {t \in shorter : Len(t) = n - 1}, x \in S}

ItemLists == SeqsUpTo(Ids, MaxItems)

Idx == 1..Len(items)


(***************************************************************************)
(* Routing of an item to an execution path.                                *)
(***************************************************************************)
\* python's enumerate() index of the item at (1-based) position i
PyIndex(i) == i - 1

\* a routing that sends a file of exactly the threshold size to the
\* cooperative path
FileRouteInclusive(id) == IF StatSize(id) <= SizeThreshold THEN "async" ELSE "thread"

\* f.stat().st_size < 10000 / >= 10000
FileRoute(id) == IF StatSize(id) < SizeThreshold THEN "async" ELSE "thread"

\* a routing by the 1-based position
UrlRouteOneBased(i) == IF i % 2 = 0 THEN "async" ELSE "thread"

\* i % 2 == 0 / i % 2 != 0 over enumerate(urls)
UrlRoute(i) == IF PyIndex(i) % 2 = 0 THEN "async" ELSE "thread"

Route(v, its, i) ==
    CASE v = "HybridFile" -> FileRoute(its[i])
      [] v = "HybridUrl" -> UrlRoute(i)
      [] IsCoop(v) -> "async"
      [] IsThread(v) -> "thread"
      [] OTHER -> "proc"

RECURSIVE Routed(_, _, _, _)
\* the indices k..Len(its) routed to path r, ascending (a list comprehension)
Routed(v, its, r, k) ==
    IF k > Len(its) THEN <<>>
    ELSE (IF Route(v, its, k) = r THEN <<k>> ELSE <<>>) \o Routed(v, its, r, k + 1)

\* results taken in the order the units ended
CompletionOrder(v, its) == comp

\* the argument list of asyncio.gather: async_tasks + thread_tasks
GatherOrder(v, its) == Routed(v, its, "async", 1) \o Routed(v, its, "thread", 1)

\* a map that returns results as they arrive (imap_unordered)
MapOrderUnordered(v, its) == comp

\* the argument list of pool.map
MapOrder(v, its) == Routed(v, its, "proc", 1)

(***************************************************************************)
(* Construction of a result.                                               *)
(***************************************************************************)
\* the boundary taken into the truncated branch
TruncateInclusive(n) ==
    IF n >= TruncateLength THEN TruncateLength + MarkerLength ELSE n

\* content[:1000] + "..." if len(content) > 1000 else content, on lengths
Truncate(n) == IF n > TruncateLength THEN TruncateLength + MarkerLength ELSE n

\* len(str(n))
RECURSIVE Digits(_)
Digits(n) == IF n < 10 THEN 1 ELSE 1 + Digits(n \div 10)

\* len(content.split()) of a text of n characters without white space
WordCount(n) == IF n = 0 THEN 0 ELSE 1

\* the length of the text the blocking function of variant v truncates:
\* f"[Words: {word_count}, Chars: {char_count}] {content}" in the process
\* file reader, content.upper() / content.lower() (of ASCII text) in the
\* hybrid classes and the process URL fetcher, content itself elsewhere
ProcessedLength(v, n) ==
    IF v = "ProcFile"
    THEN 8 + Digits(WordCount(n)) + 9 + Digits(n) + 2 + n
    ELSE n

\* FileResult(...) of the success path; payload remembers the length of the
\* text that was truncated
FileOk(i, id, n, tag) ==
    [item |-> i, id |-> id, content |-> Truncate(n), size |-> StatSize(id),
     status |-> 0, worker |-> tag, error |-> None, payload |-> n]

\* FileResult(..., content="", size=0, error=str(e)) of the except path
FileErr(i, id, tag) ==
    [item |-> i, id |-> id, content |-> 0, size |-> 0,
     status |-> 0, worker |-> tag, error |-> "IOError", payload |-> 0]

\* the dataclass UrlResult of variant v has a field content_preview
HasContentPreview(v) == v # "HybridUrl"

\* UrlResult(url=..., content_preview=..., error=error_message): raises
\* TypeError (no result) when the dataclass lacks the keyword
UrlResult(v, i, id, st, n, tag, err) ==
    IF HasContentPreview(v)
    THEN [item |-> i, id |-> id, content |-> Truncate(n), size |-> n,
          status |-> st, worker |-> tag, error |-> err, payload |-> n]
    ELSE NoResult

\* error_message after a response with status st
HttpError(st) == IF st >= HttpErrorFloor THEN "HTTP Error" ELSE None

\* the result of a fetch that got a response (st, n)
UrlResponded(v, i, id, st, n, tag) == UrlResult(v, i, id, st, n, tag, HttpError(st))

\* the result of a fetch that raised e (an Exception) after status_code had
\* become st: response_size and content_preview keep their initial values
UrlRaised(v, i, id, st, tag, e) == UrlResult(v, i, id, st, 0, tag, e)

\* error_message of the except clauses that an I/O step is made to reach
\* ("Unexpected Error" is reached by a closed session, see Acquire)
GetErrors == {"Network Error", "Timeout Error"}
TextErrors == {"Timeout Error"}
\* requests' Timeout is a RequestException: f"Network Error: {e}"
SyncErrors == {"Network Error", "Network Error: timed out"}

\* the error messages of a request that ran into timeout=10
IsTimeout(e) == e \in {"Timeout Error", "Network Error: timed out"}

\* the items known to have timed out, after item i raised with message e
Timed(t, i, e) == IF IsTimeout(e) THEN t \cup {i} ELSE t

(***************************************************************************)
(* What an I/O step can do: kind "ok" (it returns), "raise" (it raises an  *)
(* Exception) or "crash" (it raises a BaseException that "except           *)
(* Exception" does not catch, e.g. CancelledError).                        *)
(***************************************************************************)
Outcome(k, st, n, e) == [kind |-> k, status |-> st, len |-> n, err |-> e]

Crash == Outcome("crash", 0, 0, None)

\* open() / aiofiles.open()
OpenOutcomes == {Outcome("ok", 0, 0, None), Outcome("raise", 0, 0, "IOError")}

\* file.read() of an open file
ReadOutcomes ==
    {Outcome("ok", 0, n, None) : n \in ContentLens}
        \cup {Outcome("raise", 0, 0, "IOError"), Crash}

\* open() and read() in one blocking call of a worker thread or process
FileOutcomes == ReadOutcomes

\* session.get(): a response arrives, or the request raises
GetOutcomes ==
    {Outcome("ok", 0, 0, None)} \cup {Outcome("raise", 0, 0, e) : e \in GetErrors}

Responses == {Outcome("ok", st, n, None) : st \in StatusCodes, n \in ContentLens}

\* response.text() of a response
TextOutcomes ==
    Responses \cup {Outcome("raise", st, 0, e) : st \in StatusCodes, e \in TextErrors}
        \cup {Crash}

\* requests.get() and response.text in one blocking call
UrlOutcomes ==
    Responses \cup {Outcome("raise", 0, 0, e) : e \in SyncErrors} \cup {Crash}

(***************************************************************************)
(* Construction of the instance.                                           *)
(***************************************************************************)
Init ==
    /\ variant \in Variants
    /\ max_async \in 1..MaxCap
    /\ max_workers \in 1..MaxCap
    /\ max_concurrent_files \in 1..MaxCap
    \* knobs a class does not have are pinned to 1
    /\ ~(IsCoop(variant) \/ IsHybrid(variant)) => max_async = 1
    /\ IsCoop(variant) => max_workers = 1
    /\ variant # "ThreadFile" => max_concurrent_files = 1
    /\ sem = max_async
    /\ lock = 0
    /\ loaded = {}
    /\ total = 0
    /\ processed = 0
    /\ items = <<>>
    /\ pc = <<>>
    /\ res = <<>>
    /\ fate = <<>>
    /\ comp = <<>>
    /\ early = {}
    /\ yielded = {}
    /\ finq = <<>>
    /\ log = <<>>
    /\ phase = "idle"
    /\ session_open = FALSE
    /\ said = "nothing"
    /\ timed = {}
    /\ ret = NoCall

(***************************************************************************)
(* The batch operation: discovery and start.                               *)
(***************************************************************************)
RunPhase(v) ==
    CASE IsThread(v) -> "submit"
      [] IsProc(v) -> "map"
      [] OTHER -> "gather"

\* a batch operation that goes on with an empty list of items
NeverNothing(n) == FALSE

\* if self.total_files == 0 / if self.total_requests == 0
NothingToDo(n) == n = 0

\* the closing print divides by the number of items: ZeroDivisionError
\* when there is none
ClosingPhase(n) == IF n = 0 THEN "raised" ELSE "returned"
ClosingLine(n, line) == IF n = 0 THEN line ELSE "completed"

\* a listing that raises FileNotFoundError for a missing directory
MissingRaises == "raised"

\* the return of the "if not directory.exists()" branch
MissingReturns == "returned"

\* if not directory.exists(): print(...); return
BatchNoDirectory ==
    /\ phase = "idle"
    /\ IsFile(variant)
    /\ said' = "no directory"
    /\ phase' = MissingReturns
    /\ ret' = NoCall
    /\ UNCHANGED <<timed, variant, max_async, max_workers, max_concurrent_files, sem, lock, loaded,
                   total, processed, items, pc, res, comp, early, finq, log,
                   session_open, fate, yielded>>

\* the batch operation up to the point where the units of work exist
StartBatch(its) ==
    /\ phase = "idle"
    /\ ret' = NoCall
    /\ timed' = {}
    /\ total' = Len(its)
    /\ IF NothingToDo(Len(its))
       \* print("No files found!") / print("No URLs provided!"); return
       THEN /\ said' = "no work"
            /\ phase' = "returned"
            /\ UNCHANGED <<items, pc, res, fate, session_open>>
       ELSE /\ said' = "found"
            /\ items' = its
            /\ pc' = [i \in 1..Len(its) |->
                        IF Route(variant, its, i) = "async" THEN "new" ELSE "queued"]
            /\ res' = [i \in 1..Len(its) |-> NoResult]
            /\ fate' = [i \in 1..Len(its) |-> "pending"]
            /\ phase' = RunPhase(variant)
            \* AsyncUrlFetcher gathers inside the session scope; the hybrid
            \* fetcher leaves the scope before any task has started
            /\ session_open' = (variant = "AsyncUrl")
    /\ UNCHANGED <<variant, max_async, max_workers, max_concurrent_files, sem, lock, loaded,
                   processed, comp, early, finq, log, yielded>>


(***************************************************************************)
(* Cooperative units of work (coroutines run by asyncio.gather).           *)
(***************************************************************************)
IsResult(r) == r # NoResult

\* a gate that admits once more than it has slots
CanAcquireOffByOne(s) == s >= 0

\* asyncio.Semaphore.acquire does not block
CanAcquire(s) == s > 0

\* Semaphore.__aenter__
SemAcquire(s) == s - 1

\* a release that is skipped when the block is left by an exception
SemReleaseOnSuccess(s, raised) == IF raised THEN s ELSE s + 1

\* Semaphore.__aexit__: runs however the block was left; raised = the block
\* was left by an exception
SemRelease(s, raised) == s + 1

\* self.processed_files += 1 / self.processed_requests += 1
Count(n) == n + 1

\* a unit that is run again when its result carries an error
EndedPcRetry(r) ==
    IF IsResult(r) THEN (IF r.error = None THEN "done" ELSE "run") ELSE "failed"

\* a unit returns its result or raises, and is not started again
EndedPc(r) == IF IsResult(r) THEN "done" ELSE "failed"

\* the unit of item i ends: with result r, or with an exception (NoResult)
EndUnit(i, r) ==
    /\ res' = [res EXCEPT ![i] = r]
    /\ pc' = [pc EXCEPT ![i] = EndedPc(r)]
    /\ comp' = Append(comp, i)

\* fetch_url_async from the construction of the result to the return: no
\* result and no count when the constructor raises
CoopUrlEnd(i, r) ==
    /\ EndUnit(i, r)
    /\ processed' = IF IsResult(r) THEN Count(processed) ELSE processed

\* async with self.semaphore: entered by the task of item i
Acquire(i) ==
    /\ phase = "gather"
    /\ pc[i] = "new"
    /\ CanAcquire(sem)
    /\ IF IsFile(variant)
       THEN /\ sem' = SemAcquire(sem)
            /\ pc' = [pc EXCEPT ![i] = "open"]
            /\ UNCHANGED <<res, fate, comp, processed>>
       ELSE IF session_open
       THEN /\ sem' = SemAcquire(sem)
            /\ pc' = [pc EXCEPT ![i] = "get"]
            /\ UNCHANGED <<res, fate, comp, processed>>
       \* session.get on a closed session raises RuntimeError without
       \* suspending: caught by "except Exception"; the slot is taken and
       \* given back in the same step
       ELSE LET r == UrlRaised(variant, i, items[i], 0, "async", "Unexpected Error")
            IN  /\ CoopUrlEnd(i, r)
                /\ fate' = [fate EXCEPT ![i] = "raise"]
                /\ sem' = SemRelease(SemAcquire(sem), ~IsResult(r))
    /\ UNCHANGED <<said, ret, timed, variant, max_async, max_workers, max_concurrent_files, lock, loaded, total,
                   items, early, finq, log, phase, session_open, yielded>>

\* async with aiofiles.open(...): out is what the open does
OpenStep(i, out) ==
    /\ pc[i] = "open"
    /\ IF out.kind = "ok"
       THEN /\ pc' = [pc EXCEPT ![i] = "read"]
            /\ UNCHANGED <<res, fate, comp, processed, sem>>
       \* except Exception: error result, count, return, slot released
       ELSE /\ EndUnit(i, FileErr(i, items[i], "async"))
            /\ fate' = [fate EXCEPT ![i] = "raise"]
            /\ processed' = Count(processed)
            /\ sem' = SemRelease(sem, FALSE)
    /\ UNCHANGED <<said, ret, timed, variant, max_async, max_workers, max_concurrent_files, lock, loaded, total,
                   items, early, finq, log, phase, session_open, yielded>>

\* content = await file.read(), up to the suspension in the file's __aexit__
ReadStep(i, out) ==
    /\ pc[i] = "read"
    /\ fate' = [fate EXCEPT ![i] = out.kind]
    /\ IF out.kind = "ok"
       \* the result is built and counted before the file is closed
       THEN /\ res' = [res EXCEPT ![i] = FileOk(i, items[i], out.len, "async")]
            /\ processed' = Count(processed)
            /\ pc' = [pc EXCEPT ![i] = "close"]
       ELSE /\ pc' = [pc EXCEPT ![i] =
                        IF out.kind = "raise" THEN "close_exc" ELSE "close_crash"]
            /\ UNCHANGED <<res, processed>>
    /\ UNCHANGED <<said, ret, timed, variant, max_async, max_workers, max_concurrent_files, sem, lock, loaded,
                   total, items, comp, early, finq, log, phase, session_open, yielded>>

\* the file's __aexit__ has closed the file; the function is left
CloseStep(i) ==
    /\ pc[i] \in {"close", "close_exc", "close_crash"}
    /\ CASE pc[i] = "close" ->
              /\ EndUnit(i, res[i])
              /\ sem' = SemRelease(sem, FALSE)
              /\ UNCHANGED processed
         [] pc[i] = "close_exc" ->
              /\ EndUnit(i, FileErr(i, items[i], "async"))
              /\ processed' = Count(processed)
              /\ sem' = SemRelease(sem, FALSE)
         [] OTHER ->
              /\ EndUnit(i, NoResult)
              /\ sem' = SemRelease(sem, TRUE)
              /\ UNCHANGED processed
    /\ UNCHANGED <<said, ret, timed, variant, max_async, max_workers, max_concurrent_files, lock, loaded, total,
                   items, fate, early, finq, log, phase, session_open, yielded>>

\* async with session.get(...): a response arrives, or one of the except
\* clauses sets error_message
GetStep(i, out) ==
    /\ pc[i] = "get"
    /\ CASE out.kind = "ok" ->
              /\ pc' = [pc EXCEPT ![i] = "text"]
              /\ UNCHANGED <<res, fate, comp, processed, sem>>
         [] out.kind = "raise" ->
              LET r == UrlRaised(variant, i, items[i], 0, "async", out.err)
              IN  /\ CoopUrlEnd(i, r)
                  /\ fate' = [fate EXCEPT ![i] = "raise"]
                  /\ sem' = SemRelease(sem, ~IsResult(r))
    /\ timed' = IF out.kind = "raise" THEN Timed(timed, i, out.err) ELSE timed
    /\ UNCHANGED <<said, ret, variant, max_async, max_workers, max_concurrent_files, lock, loaded, total,
                   items, early, finq, log, phase, session_open, yielded>>

\* content = await response.text() and the rest of fetch_url_async
TextStep(i, out) ==
    /\ pc[i] = "text"
    /\ fate' = [fate EXCEPT ![i] = out.kind]
    /\ timed' = IF out.kind = "raise" THEN Timed(timed, i, out.err) ELSE timed
    /\ CASE out.kind = "ok" ->
              LET r == UrlResponded(variant, i, items[i], out.status, out.len, "async")
              IN  /\ CoopUrlEnd(i, r)
                  /\ sem' = SemRelease(sem, ~IsResult(r))
         \* status_code was assigned before response.text() raised
         [] out.kind = "raise" ->
              LET r == UrlRaised(variant, i, items[i], out.status, "async", out.err)
              IN  /\ CoopUrlEnd(i, r)
                  /\ sem' = SemRelease(sem, ~IsResult(r))
         [] OTHER ->
              /\ EndUnit(i, NoResult)
              /\ sem' = SemRelease(sem, TRUE)
              /\ UNCHANGED processed
    /\ UNCHANGED <<said, ret, variant, max_async, max_workers, max_concurrent_files, lock, loaded, total,
                   items, early, finq, log, phase, session_open, yielded>>

Ended(i) == pc[i] \in {"done", "failed"}

\* a store that starts a new log with every batch
StoredAfresh(l, new) == new

\* self.results_stack.append(result), for each of the new results
Stored(l, new) == l \o new

RECURSIVE Collected(_, _)
\* for result in results: if isinstance(result, ...): append
Collected(order, r) ==
    IF order = <<>> THEN <<>>
    ELSE (IF IsResult(r[Head(order)]) THEN <<r[Head(order)]>> ELSE <<>>)
         \o Collected(Tail(order), r)

\* results = await asyncio.gather(*tasks, return_exceptions=True) returns,
\* the session scope (AsyncUrlFetcher) is left, the results are stored
GatherReturn ==
    /\ phase = "gather"
    /\ \A i \in Idx : Ended(i)
    /\ log' = Stored(log, Collected(GatherOrder(variant, items), res))
    /\ session_open' = FALSE
    /\ phase' = ClosingPhase(Len(items))
    /\ said' = ClosingLine(Len(items), said)
    /\ UNCHANGED <<ret, timed, variant, max_async, max_workers, max_concurrent_files, sem, lock, loaded,
                   total, processed, items, pc, res, comp, early, finq, fate, yielded>>


(***************************************************************************)
(* Units of work run by a pool: ThreadPoolExecutor threads (thread-pool    *)
(* and hybrid strategies) and multiprocessing.Pool processes.              *)
(***************************************************************************)
\* the units a pool worker is executing
Busy == {i \in Idx : pc[i] \in {"run", "wantlock", "inlock", "adding"}}

\* a pool that starts a unit whatever its workers are doing
WorkerAlwaysIdle(n, busy) == TRUE

\* a pool starts a queued unit when one of its n workers is idle
WorkerIdle(n, busy) == busy < n

\* the work queue of a pool is first-in first-out
NextQueued(i) == \A j \in Idx : pc[j] = "queued" => i <= j

PoolPhases == {"submit", "collect", "shutdown", "gather", "map"}

\* a worker thread or process takes the unit of item i from the queue
WorkerTake(i) ==
    /\ phase \in PoolPhases
    /\ pc[i] = "queued"
    /\ NextQueued(i)
    /\ WorkerIdle(max_workers, Cardinality(Busy))
    /\ pc' = [pc EXCEPT ![i] = "run"]
    /\ UNCHANGED <<said, ret, timed, variant, max_async, max_workers, max_concurrent_files, sem, lock, loaded,
                   total, processed, items, res, comp, early, finq, log, phase,
                   session_open, fate, yielded>>

\* what the blocking function of the unit produces from outcome out
PoolResult(v, i, id, tag, out) ==
    IF IsFile(v)
    THEN CASE out.kind = "ok" -> FileOk(i, id, ProcessedLength(v, out.len), tag)
           [] out.kind = "raise" -> FileErr(i, id, tag)
           [] OTHER -> NoResult
    ELSE CASE out.kind = "ok" ->
                  UrlResponded(v, i, id, out.status, ProcessedLength(v, out.len), tag)
           [] out.kind = "raise" -> UrlRaised(v, i, id, out.status, tag, out.err)
           [] OTHER -> NoResult

\* the future of item i is done: as_completed's waiter, if installed, is told
FutureDone(i) ==
    finq' = IF phase = "collect" THEN Append(finq, i) ELSE finq

\* a worker that appends its result to self.results itself
WorkerAppends(l, r) == IF IsResult(r) THEN Append(l, r) ELSE l

\* return result: the blocking function hands its result to the future
\* and leaves self.results alone
WorkerReturns(l, r) == l

\* the thread-pool classes count under self.lock; the hybrid classes'
\* sync functions and the process workers do not count
CountsInWorker(v) == IsThread(v)

\* read_file_sync / fetch_url_sync / read_file_worker / fetch_url_worker up
\* to the construction of the result
PoolWork(i, out) ==
    /\ pc[i] = "run"
    /\ fate' = [fate EXCEPT ![i] = out.kind]
    /\ timed' = IF out.kind = "raise" THEN Timed(timed, i, out.err) ELSE timed
    /\ LET tag == Route(variant, items, i)
           r == PoolResult(variant, i, items[i], tag, out)
       IN  IF IsResult(r) /\ CountsInWorker(variant)
           THEN /\ res' = [res EXCEPT ![i] = r]
                /\ pc' = [pc EXCEPT ![i] = "wantlock"]
                /\ UNCHANGED <<comp, finq, log>>
           ELSE /\ EndUnit(i, r)
                /\ FutureDone(i)
                /\ log' = WorkerReturns(log, r)
    /\ UNCHANGED <<said, ret, variant, max_async, max_workers, max_concurrent_files, sem, lock, loaded,
                   total, processed, items, early, phase, session_open, yielded>>

\* a lock that never makes a thread wait
LockNeverHeld(l) == TRUE

\* threading.Lock.acquire returns only when no thread holds the lock
LockFree(l) == l = 0

\* with self.lock: entered
ThreadLock(i) ==
    /\ pc[i] = "wantlock"
    /\ LockFree(lock)
    /\ lock' = i
    /\ pc' = [pc EXCEPT ![i] = "inlock"]
    /\ UNCHANGED <<said, ret, timed, variant, max_async, max_workers, max_concurrent_files, sem, total,
                   loaded, processed, items, res, comp, early, finq, log, phase,
                   session_open, fate, yielded>>

\* self.processed_files += 1, first half: the attribute is read
ThreadLoad(i) ==
    /\ pc[i] = "inlock"
    /\ loaded' = loaded \cup {<<i, processed>>}
    /\ pc' = [pc EXCEPT ![i] = "adding"]
    /\ UNCHANGED <<said, ret, timed, variant, max_async, max_workers, max_concurrent_files, sem, lock,
                   total, processed, items, res, comp, early, finq, log, phase,
                   session_open, fate, yielded>>

\* second half: the sum is written back; then the lock is released and the
\* result returned
ThreadCount(i) ==
    /\ pc[i] = "adding"
    /\ \E n \in 0..MaxItems :
          /\ <<i, n>> \in loaded
          /\ processed' = Count(n)
          /\ loaded' = loaded \ {<<i, n>>}
    /\ lock' = 0
    /\ EndUnit(i, res[i])
    /\ FutureDone(i)
    /\ log' = WorkerReturns(log, res[i])
    /\ UNCHANGED <<said, ret, timed, variant, max_async, max_workers, max_concurrent_files, sem, total,
                   items, fate, early, phase, session_open, yielded>>

(***************************************************************************)
(* The collecting side of the thread-pool strategy:                        *)
(*   for future in as_completed(future_to_x): append(future.result())      *)
(***************************************************************************)
\* as_completed is called: the futures already finished are set aside
BeginCollect ==
    /\ phase = "submit"
    /\ early' = {i \in Idx : Ended(i)}
    /\ phase' = "collect"
    /\ UNCHANGED <<said, ret, timed, variant, max_async, max_workers, max_concurrent_files, sem, lock, loaded,
                   total, processed, items, pc, res, fate, comp, yielded, finq, log,
                   session_open>>

\* future.result() of the future of item i, and the append
Take(i) ==
    IF IsResult(res[i])
    THEN /\ log' = Stored(log, <<res[i]>>)
         /\ phase' = phase
    \* result() raises: the loop is left, the executor's __exit__ waits
    ELSE /\ log' = log
         /\ phase' = "shutdown"

\* as_completed yields one of the futures set aside (a set: any order)
CollectEarly(i) ==
    /\ phase = "collect"
    /\ i \in early \ yielded
    /\ yielded' = yielded \cup {i}
    /\ Take(i)
    /\ UNCHANGED <<said, ret, timed, variant, max_async, max_workers, max_concurrent_files, sem, lock, loaded,
                   total, processed, items, pc, res, fate, comp, early, finq,
                   session_open>>

\* as_completed yields the next future that has finished since
CollectNext ==
    /\ phase = "collect"
    /\ early \subseteq yielded
    /\ finq # <<>>
    /\ finq' = Tail(finq)
    /\ yielded' = yielded \cup {Head(finq)}
    /\ Take(Head(finq))
    /\ UNCHANGED <<said, ret, timed, variant, max_async, max_workers, max_concurrent_files, sem, lock, loaded,
                   total, processed, items, pc, res, fate, comp, early, session_open>>

\* every future has been yielded: the loop and the executor scope are left
CollectEnd ==
    /\ phase = "collect"
    /\ yielded = Idx
    /\ phase' = ClosingPhase(Len(items))
    /\ said' = ClosingLine(Len(items), said)
    /\ UNCHANGED <<ret, timed, variant, max_async, max_workers, max_concurrent_files, sem, lock, loaded,
                   total, processed, items, pc, res, comp, early, finq, log,
                   session_open, fate, yielded>>

\* executor.shutdown(wait=True) has waited for every unit; the exception of
\* future.result() reaches the caller of the batch operation
ShutdownEnd ==
    /\ phase = "shutdown"
    /\ \A i \in Idx : Ended(i)
    /\ phase' = "raised"
    /\ UNCHANGED <<said, ret, timed, variant, max_async, max_workers, max_concurrent_files, sem, lock, loaded,
                   total, processed, items, pc, res, comp, early, finq, log,
                   session_open, fate, yielded>>

(***************************************************************************)
(* The process-pool strategy: results = pool.map(worker, items)            *)
(***************************************************************************)
RECURSIVE InOrder(_, _)
\* the list pool.map returns: the results in the order of its argument
InOrder(order, r) ==
    IF order = <<>> THEN <<>> ELSE <<r[Head(order)]>> \o InOrder(Tail(order), r)

\* pool.map returns the list, or raises when a worker did not return a result
MapReturn ==
    /\ phase = "map"
    /\ \A i \in Idx : Ended(i)
    /\ IF \A i \in Idx : IsResult(res[i])
       THEN /\ log' = Stored(log, InOrder(MapOrder(variant, items), res))
            /\ phase' = ClosingPhase(Len(items))
            /\ said' = ClosingLine(Len(items), said)
       ELSE /\ log' = log
            /\ phase' = "raised"
            /\ UNCHANGED said
    /\ UNCHANGED <<ret, timed, variant, max_async, max_workers, max_concurrent_files, sem, lock, loaded,
                   total, processed, items, pc, res, comp, early, finq, session_open,
                   fate, yielded>>

(***************************************************************************)
(* The queries of AsyncFileReader and AsyncUrlFetcher:                     *)
(* get_results_summary() and get_recent_results(count).                    *)
(***************************************************************************)
PreviewLength == 200

\* a summary that takes every entry for a success
EveryEntry(l) == l

\* [r for r in self.results_stack if r.error is None]
Successful(l) == SelectSeq(l, LAMBDA r : r.error = None)

\* [r for r in self.results_stack if r.error is not None]
FailedOnes(l) == SelectSeq(l, LAMBDA r : r.error # None)

RECURSIVE SumSize(_)
\* sum(r.size for r in ...)
SumSize(l) == IF l = <<>> THEN 0 ELSE Head(l).size + SumSize(Tail(l))

\* a summary that never answers with the message
NeverNothingProcessed(l) == FALSE

\* if not self.results_stack
NothingProcessed(l) == Len(l) = 0

\* the dict get_results_summary returns (kind "message" or "counted"), or
\* the exception of the division by len(self.results_stack)
SummaryOf(k, l) ==
    [kind |-> k,
     total |-> Len(l),
     successful |-> Len(Successful(l)),
     failed |-> Len(FailedOnes(l)),
     total_size |-> SumSize(Successful(l)),
     status_codes |-> {l[j].status : j \in {x \in 1..Len(l) : l[x].status # 0}}]

Summary(l) ==
    IF NothingProcessed(l) THEN SummaryOf("message", <<>>)
    ELSE IF Len(l) = 0 THEN SummaryOf("ZeroDivisionError", <<>>)
    ELSE SummaryOf("counted", l)

\* python's l[start:] for a negative or zero start
SliceFrom(l, start) ==
    LET from == IF start < 0 THEN (IF Len(l) + start < 0 THEN 0 ELSE Len(l) + start)
                ELSE (IF start > Len(l) THEN Len(l) ELSE start)
    IN  SubSeq(l, from + 1, Len(l))

\* reversed(l)
Reversed(l) == [j \in 1..Len(l) |-> l[Len(l) - j + 1]]

\* r.content[:200] + "..." if len(r.content) > 200 else r.content, on lengths
Preview(n) == IF n > PreviewLength THEN PreviewLength + MarkerLength ELSE n

\* the dict get_recent_results builds of a result
RecentEntry(r) ==
    [item |-> r.item, id |-> r.id, status |-> r.status, size |-> r.size,
     content_preview |-> Preview(r.content), error |-> r.error]

\* a get_recent_results that returns the entries oldest first
RecentOldestFirst(l, n) ==
    LET recent == IF Len(l) >= n THEN SliceFrom(l, 0 - n) ELSE l
    IN  [j \in 1..Len(recent) |-> RecentEntry(recent[j])]

\* get_recent_results(count)
Recent(l, n) ==
    LET recent == IF Len(l) >= n THEN SliceFrom(l, 0 - n) ELSE l
    IN  [j \in 1..Len(recent) |-> RecentEntry(Reversed(recent)[j])]

\* a query that pops what it returns off the stack
LogAfterPop(l, n) == SubSeq(l, 1, IF Len(l) >= n THEN Len(l) - n ELSE 0)

\* list(self.results_stack) copies, the comprehensions only read
LogAfterQuery(l, n) == l

\* the caller of the instance is not inside a batch operation
Quiet == phase \in {"idle", "returned", "raised"}

\* the return value of a query, with the number of the call and the log
\* length it was made at
Returned(op, n, rows, sum) ==
    [op |-> op, n |-> n, calls |-> ret.calls + 1, len |-> Len(log),
     rows |-> rows, sum |-> sum]

\* reader.get_recent_results(n)
GetRecent(n) ==
    /\ IsCoop(variant)
    /\ Quiet
    /\ ret.calls < MaxCalls
    /\ ret' = Returned("recent", n, Recent(log, n), NoSummary)
    /\ log' = LogAfterQuery(log, n)
    /\ UNCHANGED <<said, timed, variant, max_async, max_workers, max_concurrent_files, sem,
                   lock, loaded, total, processed, items, pc, res, fate, comp, early, yielded,
                   finq, phase, session_open>>

\* reader.get_results_summary()
GetSummary ==
    /\ IsCoop(variant)
    /\ Quiet
    /\ ret.calls < MaxCalls
    /\ ret' = Returned("summary", 0, <<>>, Summary(log))
    /\ log' = LogAfterQuery(log, 0)
    /\ UNCHANGED <<said, timed, variant, max_async, max_workers, max_concurrent_files, sem,
                   lock, loaded, total, processed, items, pc, res, fate, comp, early, yielded,
                   finq, phase, session_open>>

(***************************************************************************)
(* The specification.                                                      *)
(***************************************************************************)
Next ==
    \/ BatchNoDirectory
    \/ \E its \in ItemLists : StartBatch(its)
    \/ \E i \in Idx : Acquire(i)
    \/ \E i \in Idx, out \in OpenOutcomes : OpenStep(i, out)
    \/ \E i \in Idx, out \in ReadOutcomes : ReadStep(i, out)
    \/ \E i \in Idx : CloseStep(i)
    \/ \E i \in Idx, out \in GetOutcomes : GetStep(i, out)
    \/ \E i \in Idx, out \in TextOutcomes : TextStep(i, out)
    \/ GatherReturn
    \/ \E i \in Idx : WorkerTake(i)
    \/ \E i \in Idx, out \in (IF IsFile(variant) THEN FileOutcomes ELSE UrlOutcomes) :
          PoolWork(i, out)
    \/ \E i \in Idx : ThreadLock(i)
    \/ \E i \in Idx : ThreadLoad(i)
    \/ \E i \in Idx : ThreadCount(i)
    \/ BeginCollect
    \/ \E i \in Idx : CollectEarly(i)
    \/ CollectNext
    \/ CollectEnd
    \/ ShutdownEnd
    \/ MapReturn

Spec == Init /\ [][Next]_vars

(***************************************************************************)
(* The strategies that admit their units through self.semaphore (the       *)
(* cooperative and the hybrid classes), run under fair scheduling: the     *)
(* event loop runs every task that is ready, the executor's threads run,   *)
(* and every I/O step eventually returns, raises or times out.             *)
(***************************************************************************)
InitGate == Init /\ (IsCoop(variant) \/ IsHybrid(variant))

NextGate ==
    \/ BatchNoDirectory
    \/ \E its \in ItemLists : StartBatch(its)
    \/ \E i \in Idx : Acquire(i)
    \/ \E i \in Idx, out \in OpenOutcomes : OpenStep(i, out)
    \/ \E i \in Idx, out \in ReadOutcomes : ReadStep(i, out)
    \/ \E i \in Idx : CloseStep(i)
    \/ \E i \in Idx, out \in GetOutcomes : GetStep(i, out)
    \/ \E i \in Idx, out \in TextOutcomes : TextStep(i, out)
    \/ GatherReturn
    \/ \E i \in Idx : WorkerTake(i)
    \/ \E i \in Idx, out \in (IF IsFile(variant) THEN FileOutcomes ELSE UrlOutcomes) :
          PoolWork(i, out)

FairSpec == InitGate /\ [][NextGate]_vars /\ WF_vars(NextGate)

(***************************************************************************)
(* An AsyncFileReader or AsyncUrlFetcher whose caller runs a batch and     *)
(* queries the instance before and after it, as main() does.               *)
(***************************************************************************)
InitQuery == Init /\ IsCoop(variant)

NextQuery ==
    \/ BatchNoDirectory
    \/ \E its \in ItemLists : StartBatch(its)
    \/ \E i \in Idx : Acquire(i)
    \/ \E i \in Idx, out \in OpenOutcomes : OpenStep(i, out)
    \/ \E i \in Idx, out \in ReadOutcomes : ReadStep(i, out)
    \/ \E i \in Idx : CloseStep(i)
    \/ \E i \in Idx, out \in GetOutcomes : GetStep(i, out)
    \/ \E i \in Idx, out \in TextOutcomes : TextStep(i, out)
    \/ GatherReturn
    \/ \E n \in 0..MaxCount : GetRecent(n)
    \/ GetSummary

QuerySpec == InitQuery /\ [][NextQuery]_vars

(***************************************************************************)
(* A cooperative batch whose caller cancels the task that awaits the batch *)
(* operation.  Cancelling the task cancels the gather it waits for, and    *)
(* gather cancels every child that has not finished; a child receives      *)
(* CancelledError (a BaseException) where it is suspended, once.  When all *)
(* children have ended the batch operation is left by CancelledError.      *)
(***************************************************************************)
InitCancel == Init /\ IsCoop(variant)

\* task.cancel() on the task running read_files_from_directory /
\* fetch_urls_from_list while it awaits asyncio.gather
CancelBatch ==
    /\ phase = "gather"
    /\ phase' = "cancelling"
    /\ UNCHANGED <<said, ret, timed, variant, max_async, max_workers,
                   max_concurrent_files, sem, lock, loaded, total, processed, items, pc, res,
                   fate, comp, early, yielded, finq, log, session_open>>

\* the task of item i is resumed with CancelledError
Cancelled(i) ==
    /\ phase = "cancelling"
    /\ ~Ended(i)
    /\ fate[i] # "cancelled"
    /\ CASE pc[i] = "new" ->
              \* not started, or waiting in Semaphore.acquire: no slot is held
              /\ EndUnit(i, NoResult)
              /\ fate' = [fate EXCEPT ![i] = "unstarted"]
              /\ UNCHANGED sem
         [] pc[i] = "read" ->
              \* the file's __aexit__ runs and awaits the close
              /\ pc' = [pc EXCEPT ![i] = "close_crash"]
              /\ fate' = [fate EXCEPT ![i] = "cancelled"]
              /\ UNCHANGED <<res, comp, sem>>
         [] OTHER ->
              \* "except Exception" does not catch it; the semaphore's
              \* __aexit__ runs
              /\ EndUnit(i, NoResult)
              /\ fate' = [fate EXCEPT ![i] = "cancelled"]
              /\ sem' = SemRelease(sem, TRUE)
    /\ UNCHANGED <<said, ret, timed, variant, max_async, max_workers,
                   max_concurrent_files, lock, loaded, total, processed, items, early, yielded,
                   finq, log, phase, session_open>>

\* every child has ended: gather raises CancelledError into the batch
\* operation, which leaves the session scope and stores nothing
GatherCancelled ==
    /\ phase = "cancelling"
    /\ \A i \in Idx : Ended(i)
    /\ phase' = "cancelled"
    /\ session_open' = FALSE
    /\ UNCHANGED <<said, ret, timed, variant, max_async, max_workers,
                   max_concurrent_files, sem, lock, loaded, total, processed, items, pc, res,
                   fate, comp, early, yielded, finq, log>>

NextCancel ==
    \/ BatchNoDirectory
    \/ \E its \in ItemLists : StartBatch(its)
    \/ \E i \in Idx : Acquire(i)
    \/ \E i \in Idx, out \in OpenOutcomes : phase = "gather" /\ OpenStep(i, out)
    \/ \E i \in Idx, out \in ReadOutcomes : phase = "gather" /\ ReadStep(i, out)
    \/ \E i \in Idx : (phase = "gather" \/ fate[i] = "cancelled") /\ CloseStep(i)
    \/ \E i \in Idx, out \in GetOutcomes : phase = "gather" /\ GetStep(i, out)
    \/ \E i \in Idx, out \in TextOutcomes : phase = "gather" /\ TextStep(i, out)
    \/ GatherReturn
    \/ CancelBatch
    \/ \E i \in Idx : Cancelled(i)
    \/ GatherCancelled

CancelSpec == InitCancel /\ [][NextCancel]_vars

(***************************************************************************)
(* An instance on which the caller runs the batch operation more than      *)
(* once.  The attributes of the instance (results_stack, the counters, the *)
(* semaphore) live on; the locals of the previous call do not.  One class  *)
(* of each strategy is run: AsyncFileReader, ThreadedUrlFetcher and        *)
(* MultiprocessFileReader.  The caller's batches are sized so that no more *)
(* than MaxItems results are logged or counted on the instance.            *)
(***************************************************************************)
InitAgain == Init /\ variant \in {"AsyncFile", "ThreadUrl", "ProcFile"}

\* the results the instance has logged or counted so far
Used == IF processed > Len(log) THEN processed ELSE Len(log)

\* the previous call of the batch operation is over and the next is made
BatchAgain ==
    /\ phase \in {"returned", "raised"}
    /\ Used < MaxItems
    /\ phase' = "idle"
    /\ items' = <<>>
    /\ pc' = <<>>
    /\ res' = <<>>
    /\ fate' = <<>>
    /\ comp' = <<>>
    /\ early' = {}
    /\ yielded' = {}
    /\ finq' = <<>>
    /\ timed' = {}
    /\ ret' = NoCall
    /\ UNCHANGED <<said, variant, max_async, max_workers, max_concurrent_files, sem,
                   lock, loaded, total, processed, log, session_open>>

NextAgain ==
    \/ BatchNoDirectory
    \/ \E its \in ItemLists : Used + Len(its) <= MaxItems /\ StartBatch(its)
    \/ \E i \in Idx : Acquire(i)
    \/ \E i \in Idx, out \in OpenOutcomes : OpenStep(i, out)
    \/ \E i \in Idx, out \in ReadOutcomes : ReadStep(i, out)
    \/ \E i \in Idx : CloseStep(i)
    \/ GatherReturn
    \/ \E i \in Idx : WorkerTake(i)
    \/ \E i \in Idx, out \in (IF IsFile(variant) THEN FileOutcomes ELSE UrlOutcomes) :
          PoolWork(i, out)
    \/ \E i \in Idx : ThreadLock(i)
    \/ \E i \in Idx : ThreadLoad(i)
    \/ \E i \in Idx : ThreadCount(i)
    \/ BeginCollect
    \/ \E i \in Idx : CollectEarly(i)
    \/ CollectNext
    \/ CollectEnd
    \/ ShutdownEnd
    \/ MapReturn
    \/ \E n \in 0..MaxCount : GetRecent(n)
    \/ GetSummary
    \/ BatchAgain

AgainSpec == InitAgain /\ [][NextAgain]_vars

(***************************************************************************)
(* The directory scan of the file classes:                                 *)
(*   files_to_read = []                                                    *)
(*   for ext in file_extensions:                                           *)
(*       files_to_read.extend(directory.rglob(f"*{ext}"))                  *)
(* A file name and an extension are sequences of characters; the files of  *)
(* the directory are a.t.g and b.g, the extensions .g and .t.g (one a      *)
(* suffix of the other).                                                   *)
(***************************************************************************)
FileName(id) ==
    IF id = "a" THEN <<"a", ".", "t", ".", "g">> ELSE <<"b", ".", "g">>

Extensions == {<<".", "g">>, <<".", "t", ".", "g">>}

\* the allow-lists a caller can pass, repeated entries included
ExtensionLists == SeqsUpTo(Extensions, MaxExts) \ {<<>>}

\* the files of a directory in the order rglob walks them: no path twice
Directories == {d \in ItemLists : \A i, j \in 1..Len(d) : d[i] = d[j] => i = j}

\* fnmatch(name, "*" + ext): the name ends with ext
EndsWith(name, ext) ==
    /\ Len(ext) <= Len(name)
    /\ SubSeq(name, Len(name) - Len(ext) + 1, Len(name)) = ext

\* directory.rglob(f"*{ext}"): every file whose name matches, in walk order
Rglob(dir, ext) == SelectSeq(dir, LAMBDA f : EndsWith(FileName(f), ext))

RECURSIVE Extend(_, _, _)
\* the for loop over file_extensions, from the list found so far
Extend(dir, exts, found) ==
    IF exts = <<>> THEN found
    ELSE Extend(dir, Tail(exts), found \o Rglob(dir, Head(exts)))

Discover(dir, exts) == Extend(dir, exts, <<>>)

\* the batch operation of a file class called on directory dir with the
\* allow-list exts (work lists longer than MaxItems are left out)
ScanBatch(dir, exts) ==
    /\ IsFile(variant)
    /\ Len(Discover(dir, exts)) <= MaxItems
    /\ StartBatch(Discover(dir, exts))

InitDiscovery == Init /\ IsFile(variant)

NextDiscovery ==
    \/ BatchNoDirectory
    \/ /\ phase = "idle"
       /\ \E dir \in Directories, exts \in ExtensionLists : ScanBatch(dir, exts)
    \/ \E i \in Idx : Acquire(i)
    \/ \E i \in Idx, out \in OpenOutcomes : OpenStep(i, out)
    \/ \E i \in Idx, out \in ReadOutcomes : ReadStep(i, out)
    \/ \E i \in Idx : CloseStep(i)
    \/ GatherReturn
    \/ \E i \in Idx : WorkerTake(i)
    \/ \E i \in Idx, out \in FileOutcomes : PoolWork(i, out)
    \/ \E i \in Idx : ThreadLock(i)
    \/ \E i \in Idx : ThreadLoad(i)
    \/ \E i \in Idx : ThreadCount(i)
    \/ BeginCollect
    \/ \E i \in Idx : CollectEarly(i)
    \/ CollectNext
    \/ CollectEnd
    \/ ShutdownEnd
    \/ MapReturn

DiscoverySpec == InitDiscovery /\ [][NextDiscovery]_vars


(***************************************************************************)
(* Vocabulary of the properties.                                           *)
(***************************************************************************)
\* the cooperative units inside "async with self.semaphore"
CoopInFlight ==
    {i \in Idx : pc[i] \in {"open", "read", "close", "close_exc", "close_crash",
                            "get", "text"}}

\* no I/O step of the batch raised a BaseException
NoCrash == \A i \in Idx : fate[i] # "crash"

Finished == phase \in {"returned", "raised"}

Min(a, b) == IF a < b THEN a ELSE b

\* position of item i in the completion order (0: its unit has not ended)
CompPos(i) ==
    IF \E k \in 1..Len(comp) : comp[k] = i
    THEN CHOOSE k \in 1..Len(comp) : comp[k] = i
    ELSE 0

\* how often identifier id occurs among the items / among the log entries
Submitted(id) == Cardinality({i \in Idx : items[i] = id})
Logged(id) == Cardinality({k \in 1..Len(log) : log[k].id = id})

(***************************************************************************)
(* C1  Completeness: after a batch of n items in which no I/O step crashes *)
(* a unit of work, the log holds exactly n entries, in every strategy and  *)
(* variant.  Stated as the claim; the hybrid URL fetcher violates it.      *)
(***************************************************************************)
C1_Completeness ==
    (phase = "returned" /\ NoCrash) => Len(log) = Len(items)

(***************************************************************************)
(* C2  Per-item failure isolation: when the work function of an item       *)
(* raises an exception, the unit ends with a result whose error is set     *)
(* and whose size is 0; the batch operation raises only when a unit was    *)
(* crashed.  Stated as the claim; the hybrid URL fetcher violates it.      *)
(***************************************************************************)
C2_FailureIsolation ==
    /\ \A i \in Idx :
          (fate[i] = "raise" /\ Ended(i)) =>
              /\ IsResult(res[i])
              /\ res[i].error # None
              /\ res[i].size = 0
    /\ phase = "raised" => ~NoCrash

(***************************************************************************)
(* C3  Cooperative concurrency bound: in AsyncFileReader and               *)
(* AsyncUrlFetcher the number of units between admission and finish never  *)
(* exceeds max_concurrent_files / max_concurrent_requests.                 *)
(***************************************************************************)
C3_CoopBound ==
    IsCoop(variant) => Cardinality(CoopInFlight) <= max_async

\* the gate is full and a unit is held back at it
C3_Witness ==
    /\ IsCoop(variant)
    /\ Cardinality(CoopInFlight) = max_async
    /\ \E i \in Idx : pc[i] = "new"

(***************************************************************************)
(* C4  Thread-pool concurrency bound: in ThreadedFileReader the number of  *)
(* work functions in flight never exceeds                                  *)
(* min(max_workers, max_concurrent_files).  Stated as the claim; the code  *)
(* never reads max_concurrent_files.                                       *)
(***************************************************************************)
C4_ThreadBound ==
    variant = "ThreadFile" =>
        Cardinality(Busy) <= Min(max_workers, max_concurrent_files)

(***************************************************************************)
(* C5  No silent drop: the batch operation never returns normally when a   *)
(* unit of work ended without a result, nor with fewer log entries than    *)
(* items.  Stated as the claim; gather(return_exceptions=True) followed by *)
(* the isinstance filter violates it.                                      *)
(***************************************************************************)
C5_NoSilentDrop ==
    phase = "returned" =>
        /\ \A i \in Idx : IsResult(res[i])
        /\ Len(log) >= Len(items)

(***************************************************************************)
(* C6  WorkResult invariant: every recorded result with a non-null error   *)
(* has size 0 and an empty preview.  Stated as the claim; the URL variants *)
(* violate it on a response with status >= 400.                            *)
(***************************************************************************)
C6_ResultInvariant ==
    \A k \in 1..Len(log) :
        log[k].error # None => (log[k].size = 0 /\ log[k].content = 0)

(***************************************************************************)
(* C7  No duplication, no loss: after a cooperative, thread-pool or hybrid *)
(* batch in which no I/O step crashes a unit, every identifier occurs in   *)
(* the log as often as among the submitted items.  Stated as the claim;    *)
(* the hybrid URL fetcher violates it.                                     *)
(***************************************************************************)
C7_NoDupNoLoss ==
    (~IsProc(variant) /\ phase = "returned" /\ NoCrash) =>
        \A id \in Ids : Logged(id) = Submitted(id)

(***************************************************************************)
(* C8  Process-pool order preservation: when a process-pool batch returns, *)
(* the i-th log entry is the result of the i-th submitted item, whatever   *)
(* the order in which the worker processes finished.                       *)
(***************************************************************************)
C8_MapOrder ==
    (IsProc(variant) /\ phase = "returned") =>
        /\ Len(log) = Len(items)
        /\ \A k \in 1..Len(log) : log[k].item = k /\ log[k].id = items[k]

\* a returned process-pool batch whose second item finished first
C8_Witness ==
    /\ IsProc(variant)
    /\ phase = "returned"
    /\ Len(log) >= 2
    /\ comp[1] = 2

MayPrecede(a, b) ==
    CASE IsCoop(variant) -> a < b
      [] IsHybrid(variant) ->
            \/ Route(variant, items, a) = "async" /\ Route(variant, items, b) = "thread"
            \/ Route(variant, items, a) = Route(variant, items, b) /\ a < b
      [] IsThread(variant) ->
            \/ a \in early
            \/ b \notin early /\ CompPos(a) < CompPos(b)
      [] OTHER -> TRUE

C10_Release ==
    (IsCoop(variant) \/ IsHybrid(variant)) =>
        /\ max_async - sem = Cardinality(CoopInFlight)
        /\ Finished => sem = max_async

\* a finished batch in which one unit left by the except path and one was
\* crashed, with every slot free
C10_Witness ==
    /\ IsCoop(variant)
    /\ Finished
    /\ sem = max_async
    /\ \E i \in Idx : fate[i] = "crash" /\ pc[i] = "failed"
    /\ \E i \in Idx : fate[i] = "raise" /\ pc[i] = "done"


\* C11: under fair scheduling every batch of a semaphore-gated strategy ends:
\* every item has been admitted and has finished, every slot is back in the
\* semaphore, and the batch operation has returned to its caller.
C11_Termination ==
    <>(/\ phase = "returned"
       /\ \A i \in Idx : Ended(i)
       /\ CoopInFlight = {}
       /\ sem = max_async)

\* a hybrid reader with one slot has run two cooperative items to the end
C11_Witness ==
    /\ variant = "HybridFile"
    /\ max_async = 1
    /\ Len(items) = 2
    /\ \A i \in Idx : Route(variant, items, i) = "async" /\ pc[i] = "done"
    /\ processed = 2
    /\ phase = "returned"
    /\ sem = max_async

\* the work function of item i failed: its I/O raised, or the server answered
\* with an error status
Failing(i) ==
    \/ fate[i] \in {"raise", "crash"}
    \/ IsResult(res[i]) /\ res[i].error = "HTTP Error"

\* C12: the summary asked for after a batch of n items of which k failed
\* reports total = n, successful = n - k, failed = k, and every failing item
\* has a log entry with an error and size 0.
C12_PartialFailure ==
    (ret.op = "summary" /\ phase = "returned" /\ said = "completed") =>
        LET k == Cardinality({i \in Idx : Failing(i)})
        IN  /\ ret.sum.kind = "counted"
            /\ ret.sum.total = Len(items)
            /\ ret.sum.successful = Len(items) - k
            /\ ret.sum.failed = k
            /\ \A i \in Idx :
                  Failing(i) => \E j \in 1..Len(log) :
                                  /\ log[j].item = i
                                  /\ log[j].error # None
                                  /\ log[j].size = 0

\* C13: get_recent_results(n) with n >= 1 on a log of length L returns
\* min(n, L) entries, the j-th of which is the j-th newest entry of the log
\* (so the whole log, newest first, when n > L).
C13_Recent ==
    (ret.op = "recent" /\ ret.n >= 1) =>
        LET L == Len(log)
            k == Min(ret.n, L)
        IN  /\ Len(ret.rows) = k
            /\ ret.n > L => Len(ret.rows) = L
            /\ \A j \in 1..k :
                  /\ ret.rows[j].item = log[L - j + 1].item
                  /\ ret.rows[j].id = log[L - j + 1].id
                  /\ ret.rows[j].size = log[L - j + 1].size
                  /\ ret.rows[j].error = log[L - j + 1].error

\* recent(1) on a log of two entries has returned the newer one only
C13_Witness ==
    /\ ret.op = "recent"
    /\ ret.n = 1
    /\ Len(log) = 2
    /\ Len(ret.rows) = 1
    /\ ret.rows[1].item = log[2].item
    /\ ret.rows[1].item # log[1].item

\* C14: get_recent_results(0) returns the empty list, whatever the log holds.
C14_RecentZero ==
    (ret.op = "recent" /\ ret.n = 0) => ret.rows = <<>>

\* C15: a query changes neither the log nor a counter nor the semaphore, and
\* a recent(n) that directly follows a recent(n) returns the same list.
C15_ReadOnly ==
    [][ret'.calls = ret.calls + 1 =>
          /\ log' = log
          /\ processed' = processed
          /\ total' = total
          /\ sem' = sem
          /\ (ret.op = "recent" /\ ret'.op = "recent" /\ ret'.n = ret.n)
                => ret'.rows = ret.rows]_vars

\* a second query has been answered and the two log entries are still there
C15_Witness ==
    /\ ret.calls = 2
    /\ ret.op = "recent"
    /\ ret.n = 1
    /\ Len(ret.rows) = 1
    /\ Len(log) = 2
    /\ processed = 2

\* C16: a batch operation given an empty list has returned normally, having
\* started no unit of work, taken no slot and appended nothing.
C16_EmptyBatch ==
    (phase # "idle" /\ items = <<>> /\ said # "no directory") =>
        /\ phase = "returned"
        /\ said = "no work"
        /\ total = 0
        /\ pc = <<>> /\ fate = <<>> /\ comp = <<>>
        /\ sem = max_async
        /\ processed = 0
        /\ log = <<>>

\* the thread-pool fetcher has returned from a batch of no URLs
C16_Witness ==
    /\ variant = "ThreadUrl"
    /\ said = "no work"
    /\ phase = "returned"
    /\ log = <<>>

\* C17: get_results_summary answers with the message exactly when the log is
\* empty and with the counted dict exactly when it is not; it never raises.
C17_EmptySummary ==
    ret.op = "summary" =>
        /\ ret.sum.kind \in {"message", "counted"}
        /\ ret.sum.kind = "message" <=> Len(log) = 0
        /\ ret.sum.kind = "counted" => ret.sum.total = Len(log) /\ ret.sum.total > 0

\* the summary has been asked for after a batch of no items
C17_Witness ==
    /\ ret.op = "summary"
    /\ said = "no work"
    /\ phase = "returned"
    /\ ret.sum.kind = "message"

\* C18: a file-batch operation given a directory that does not exist has
\* returned normally, having started no unit of work and changed neither the
\* log nor the processed counter.
C18_NoDirectory ==
    said = "no directory" =>
        /\ IsFile(variant)
        /\ phase = "returned"
        /\ items = <<>> /\ pc = <<>> /\ fate = <<>> /\ comp = <<>>
        /\ sem = max_async
        /\ processed = 0
        /\ log = <<>>

\* the hybrid reader has returned from a batch on a missing directory
C18_Witness ==
    /\ variant = "HybridFile"
    /\ said = "no directory"
    /\ phase = "returned"

\* the positions of a cooperative unit / of a unit of the executor
CoopPcs == {"new", "open", "read", "close", "close_exc", "close_crash", "get", "text"}
PoolPcs == {"queued", "run", "wantlock", "inlock", "adding"}

\* the set of the elements of a sequence
Range(q) == {q[j] : j \in 1..Len(q)}

\* the two subsets of the hybrid classes are disjoint and cover every index
Partitioned ==
    LET A == Routed(variant, items, "async", 1)
        T == Routed(variant, items, "thread", 1)
    IN  /\ Range(A) \cap Range(T) = {}
        /\ Range(A) \cup Range(T) = Idx
        /\ Len(A) + Len(T) = Len(items)

\* C19: in the hybrid reader a file is worked on by the cooperative path
\* exactly when its size is below 10000 and by the executor exactly when it
\* is at least 10000; the two subsets partition the batch.
C19_SizeRouting ==
    variant = "HybridFile" =>
        /\ Partitioned
        /\ \A i \in Idx :
              /\ pc[i] \in CoopPcs => StatSize(items[i]) < 10000
              /\ pc[i] \in PoolPcs => StatSize(items[i]) >= 10000
              /\ IsResult(res[i]) =>
                    /\ res[i].worker \in {"async", "thread"}
                    /\ res[i].worker = "async" <=> StatSize(items[i]) < 10000

\* a file of 9999 bytes was read by a coroutine, one of 10000 by a thread
C19_Witness ==
    /\ variant = "HybridFile"
    /\ phase = "returned"
    /\ \E i, j \in Idx :
          /\ StatSize(items[i]) = 9999 /\ IsResult(res[i]) /\ res[i].worker = "async"
          /\ StatSize(items[j]) = 10000 /\ IsResult(res[j]) /\ res[j].worker = "thread"

\* C20: in the hybrid fetcher the URL at an even index (counted from 0) is
\* worked on by the cooperative path and the URL at an odd index by the
\* executor; the two subsets partition the indices.
C20_ParityRouting ==
    variant = "HybridUrl" =>
        /\ Partitioned
        /\ \A i \in Idx :
              /\ pc[i] \in CoopPcs => (i - 1) % 2 = 0
              /\ pc[i] \in PoolPcs => (i - 1) % 2 = 1

\* the same URL at index 0 and at index 1: one waits for a slot, the other
\* is run by a thread
C20_Witness ==
    /\ variant = "HybridUrl"
    /\ Len(items) = 2
    /\ items[1] = items[2]
    /\ pc[1] = "new"
    /\ pc[2] = "run"

\* item i has an entry in the log
InLog(i) == \E k \in 1..Len(log) : log[k].item = i

\* C21: when a request of the batch ran into its timeout, the batch operation
\* is not aborted by it, the item is logged with an error, and every other
\* item has run and is logged too.
C21_TimeoutIsolation ==
    timed # {} =>
        /\ phase = "raised" => ~NoCrash
        /\ phase = "returned" =>
              /\ \A i \in timed :
                    \E k \in 1..Len(log) : log[k].item = i /\ log[k].error # None
              /\ NoCrash => \A j \in Idx : fate[j] # "pending" /\ InLog(j)

\* how often the unit of work of item i has run to its end
Runs(i) == Cardinality({k \in 1..Len(comp) : comp[k] = i})

\* C22: the unit of work of an item never runs to its end twice; when the
\* batch operation has ended every item has run exactly once and its I/O has
\* had exactly one outcome; in the hybrid classes the result was produced by
\* the path the item was routed to.
C22_ExactlyOnce ==
    /\ \A i \in Idx : Runs(i) <= 1
    /\ \A i \in Idx : Runs(i) = 1 <=> Ended(i)
    /\ (Finished /\ (IsProc(variant) => NoCrash)) =>
          \A i \in Idx : Runs(i) = 1 /\ fate[i] # "pending"
    /\ IsHybrid(variant) =>
          \A i \in Idx : IsResult(res[i]) => res[i].worker = Route(variant, items, i)

\* a thread-pool batch has returned in which the first item failed and the
\* second did not: each ran once
C22_Witness ==
    /\ variant = "ThreadUrl"
    /\ phase = "returned"
    /\ Len(items) = 2
    /\ fate[1] = "raise" /\ fate[2] = "ok"
    /\ Runs(1) = 1 /\ Runs(2) = 1
    /\ Len(log) = 2

\* C24: no step of a batch operation or of a query removes, changes or
\* reorders an entry of the log: the log before the step is a prefix of the
\* log after it, also in a second batch on the same instance.
C24_AppendOnly ==
    [][/\ Len(log') >= Len(log)
       /\ SubSeq(log', 1, Len(log)) = log]_vars

\* the log holds the first item of one batch followed by the first item of
\* a later batch
C24_Witness ==
    /\ variant = "AsyncFile"
    /\ Len(log) = 2
    /\ log[1].item = 1
    /\ log[2].item = 1
    /\ phase = "returned"

RECURSIVE BytesOfSuccesses(_)
\* the sizes of the entries 1..k of the log that carry no error, added up
BytesOfSuccesses(k) ==
    IF k = 0 THEN 0
    ELSE BytesOfSuccesses(k - 1) + (IF log[k].error = None THEN log[k].size ELSE 0)

\* C23: the summary returned for a non-empty log counts the log: total is
\* its length, successful the number of entries without error, failed the
\* number with one, total bytes the sum of the sizes of the entries without
\* error.
C23_SummaryOfLog ==
    (ret.op = "summary" /\ Len(log) > 0) =>
        /\ ret.sum.total = Len(log)
        /\ ret.sum.successful = Cardinality({k \in 1..Len(log) : log[k].error = None})
        /\ ret.sum.failed = Cardinality({k \in 1..Len(log) : log[k].error # None})
        /\ ret.sum.successful + ret.sum.failed = ret.sum.total
        /\ ret.sum.total_size = BytesOfSuccesses(Len(log))

\* the summary of a log with a failed entry of non-zero size and a
\* successful one counts the bytes of the successful one only
C23_Witness ==
    /\ ret.op = "summary"
    /\ Len(log) = 2
    /\ log[1].error # None /\ log[1].size > 0
    /\ log[2].error = None /\ log[2].size > 0
    /\ ret.sum.total_size = log[2].size

\* C25: while a cancelled cooperative batch winds down the semaphore counts
\* the units still inside, and once the batch operation has been left every
\* unit has ended and every slot is free.
C25_CancelNoLeak ==
    /\ phase \in {"cancelling", "cancelled"} =>
          max_async - sem = Cardinality(CoopInFlight)
    /\ phase = "cancelled" =>
          /\ \A i \in Idx : Ended(i)
          /\ sem = max_async

\* a batch was cancelled while one unit held the only slot and another was
\* waiting for it; both were cancelled and the slot is free
C25_Witness ==
    /\ phase = "cancelled"
    /\ max_async = 1
    /\ \E i, j \in Idx : fate[i] = "cancelled" /\ fate[j] = "unstarted"
    /\ sem = max_async


InCount == {i \in Idx : pc[i] \in {"inlock", "adding"}}

C27_NoLostUpdate ==
    IsThread(variant) =>
        /\ Cardinality(InCount) <= 1
        /\ (Finished /\ NoCrash) => processed = Len(items)

\* one thread has read the counter and holds the lock while a second one
\* waits for the lock
C27_Witness ==
    /\ IsThread(variant)
    /\ \E i, j \in Idx :
          /\ pc[i] = "adding" /\ lock = i /\ <<i, processed>> \in loaded
          /\ pc[j] = "wantlock"


(***************************************************************************)
(* C28: Log appends never race.  In the thread-pool, hybrid and            *)
(* process-pool classes a step that changes the log is a step of the       *)
(* coordinating context: it moves no unit of work (no worker thread,       *)
(* worker process or cooperative unit takes a step in it), so the log is   *)
(* never appended to from two execution contexts.                          *)
(***************************************************************************)
C28_SingleWriter ==
    [][(~IsCoop(variant) /\ log' # log) =>
            /\ pc' = pc /\ res' = res /\ fate' = fate /\ comp' = comp
            /\ phase \in {"gather", "collect", "map"}]_vars

\* the coordinator has appended a result while a worker thread is still at
\* work on another item
C28_Witness ==
    /\ IsThread(variant)
    /\ Len(log) >= 1
    /\ \E i \in Idx : pc[i] \in {"run", "wantlock", "inlock", "adding"}


(***************************************************************************)
(* C29: Hybrid subsets overlap in time.  In a hybrid batch a cooperative   *)
(* unit that is started while a thread-pool work function is running is   *)
(* in flight after that step, together with the thread-pool work function: *)
(* the two subsets are in flight at the same moment and neither waits for  *)
(* the other.                                                              *)
(***************************************************************************)
ThreadInFlight == {j \in Idx : pc[j] = "run"}

C30_HybridBound ==
    IsHybrid(variant) =>
        /\ Cardinality(CoopInFlight) <= max_async
        /\ Cardinality(Busy) <= max_workers
        /\ Cardinality(CoopInFlight \cup Busy) <= max_async + max_workers

\* a hybrid batch with both the gate and the pool full
C30_Witness ==
    /\ variant = "HybridFile"
    /\ Cardinality(CoopInFlight) = max_async
    /\ Cardinality(Busy) = max_workers
    /\ Cardinality(CoopInFlight \cup Busy) = max_async + max_workers


(***************************************************************************)
(* C31: Hybrid results reach the log with the right executor tag.  When a  *)
(* hybrid batch in which no I/O step raised a BaseException has returned,  *)
(* every item's per-item function has returned a result object (it did not *)
(* raise while constructing it), and the item is logged with worker_type   *)
(* 'async' if it was routed to the cooperative path and 'thread' if it was *)
(* routed to the thread pool.                                              *)
(***************************************************************************)
C31_HybridTagged ==
    (IsHybrid(variant) /\ phase = "returned" /\ NoCrash) =>
        \A i \in Idx :
            /\ IsResult(res[i])
            /\ \E k \in 1..Len(log) :
                  log[k].item = i /\ log[k].worker = Route(variant, items, i)


(***************************************************************************)
(* C32: Session lifetime.  In the URL classes with a cooperative path (the *)
(* cooperative fetcher and the hybrid fetcher) the shared session is open  *)
(* as long as a cooperative-routed fetch of the running batch has not      *)
(* finished: it is closed only after the last of them has ended.           *)
(***************************************************************************)
CoopFetches ==
    {i \in Idx : Route(variant, items, i) = "async"}

C32_SessionLifetime ==
    (variant \in {"AsyncUrl", "HybridUrl"} /\ phase = "gather"
        /\ \E i \in CoopFetches : ~Ended(i))
      => session_open


(***************************************************************************)
(* C33: Progress counter never overtakes the total.  At every state of     *)
(* every sequence of batches run on one instance, a second batch on an     *)
(* instance that already ran one included, the processed count is at most  *)
(* the total count.                                                        *)
(***************************************************************************)
C33_ProgressBound == processed <= total


(***************************************************************************)
(* C34: Hybrid progress counter is complete.  When a hybrid file batch of  *)
(* n items on a fresh instance has returned (no I/O step having raised a   *)
(* BaseException), processed_files equals total_files, which is n: items   *)
(* of the thread-pool path are counted like those of the cooperative path. *)
(***************************************************************************)
C34_HybridCount ==
    (variant = "HybridFile" /\ phase = "returned" /\ NoCrash) =>
        /\ total = Len(items)
        /\ processed = total


(***************************************************************************)
(* C35: Deterministic hybrid log order.  Whatever the order in which the   *)
(* units ended, the entries a returned hybrid batch has appended are the   *)
(* results of the cooperative-routed items in submission order followed by *)
(* those of the thread-routed items in submission order, one entry for     *)
(* each item whose unit returned a result.                                 *)
(***************************************************************************)
PathOf(i) == Route(variant, items, i)

C35_HybridOrder ==
    (IsHybrid(variant) /\ phase = "returned") =>
        /\ Len(log) = Cardinality({i \in Idx : IsResult(res[i])})
        /\ \A k, l \in 1..Len(log) :
              k < l =>
                \/ PathOf(log[k].item) = "async" /\ PathOf(log[l].item) = "thread"
                \/ /\ PathOf(log[k].item) = PathOf(log[l].item)
                   /\ log[k].item < log[l].item

\* the thread-routed first item ended first, yet the cooperative-routed
\* second item is logged before it
C35_Witness ==
    /\ variant = "HybridFile"
    /\ phase = "returned"
    /\ Len(log) = 2
    /\ PathOf(1) = "thread" /\ PathOf(2) = "async"
    /\ comp = <<1, 2>>
    /\ log[1].item = 2 /\ log[2].item = 1


(***************************************************************************)
(* C36: Discovery yields each file at most once.  For every extension      *)
(* allow-list, lists with a repeated entry or with an entry that is a      *)
(* suffix of another included, the work list the directory scan builds     *)
(* holds no file path twice, and no file is logged twice in one batch.     *)
(***************************************************************************)
C36_NoDuplicate ==
    /\ \A i, j \in Idx : items[i] = items[j] => i = j
    /\ \A k, l \in 1..Len(log) : log[k].id = log[l].id => k = l

====
